---- MODULE Spec2Model ----
(***************************************************************************)
(* Model of ISDPSolver (src/solver.py): the randomized search for an       *)
(* independent set of size kn, solve and solve_at_checkpoints, and the     *)
(* session list of Solution records.                                       *)
(*                                                                         *)
(* Python floats are modelled as exact rationals [num, den]; the inputs    *)
(* are dyadic fractions, for which the products the code forms are exact.  *)
(*                                                                         *)
(* perf_counter() reads the variable clock, which only the action Tick     *)
(* advances. A reading never steers the search, so Spec, under which every *)
(* property that reads no time field is checked, takes no Tick; SpecSeeded *)
(* does. random.sample is a free choice; after random.seed the generator's *)
(* outputs are kept on a tape, and seeding again replays the tape.         *)
(***************************************************************************)
EXTENDS Integers, Sequences, FiniteSets, TLC

\* ------------------------------------------------------------- bounds
MaxRepetitions == 2
MaxAttempts == 1
MaxBudget == 3
MaxClock == 1       \* ticks of the clock                  (SpecSeeded)
MaxTape == 1        \* outputs of the seeded generator     (SpecSeeded)
MaxNodes == 5       \* nodes of the graphs of SpecFunctions
\* Records a session list holds when one more call is still made.
MaxSolutions == 2

\* ------------------------------------------------------------- helpers
None == [none |-> TRUE, list |-> <<>>]
Some(l) == [none |-> FALSE, list |-> l]

Rat(a, b) == [num |-> a, den |-> b]
IntVal(a) == [num |-> a, den |-> 1, is_float |-> FALSE]
FloatVal(a, b) == [num |-> a, den |-> b, is_float |-> TRUE]

\* Python int(x) of the rational p/q, q > 0: truncation toward zero.
Trunc(p, q) == IF p >= 0 THEN p \div q ELSE -((-p) \div q)

Max(S) == CHOOSE x \in S : \A y \in S : y <= x
Min(S) == CHOOSE x \in S : \A y \in S : x <= y
Range(s) == {s[i] : i \in DOMAIN s}

RECURSIVE Sum(_)
Sum(s) == IF s = <<>> THEN 0 ELSE Head(s) + Sum(Tail(s))

RECURSIVE comb(_, _)
comb(n, r) ==
    IF r < 0 \/ r > n THEN 0
    ELSE IF r = 0 THEN 1
    ELSE (comb(n - 1, r - 1) * n) \div r

\* [x] * m in Python: empty when m <= 0.
Repeat(x, m) == [i \in 1..(IF m > 0 THEN m ELSE 0) |-> x]

\* ------------------------------------------------------------- graph view
Pairs(n) == {{u, v} : u, v \in 1..n} \ {{u} : u \in 1..n}

has_edge(g, u, v) == {u, v} \in g.edges
number_of_nodes(g) == g.n

\* One graph of every isomorphism class on the nodes 1..n (the solver never
\* looks at a node's identity, only at adjacency).
Perms(n) == {p \in [1..n -> 1..n] : \A a, b \in 1..n : a # b => p[a] # p[b]}
Relabel(E, p) == {{p[x] : x \in e} : e \in E}
GraphsOn(n) ==
    LET classes == {{Relabel(E, p) : p \in Perms(n)} : E \in SUBSET Pairs(n)}
    IN  {[n |-> n, edges |-> CHOOSE E \in c : TRUE] : c \in classes}
\* The graphs passed: every graph of at most three nodes, up to isomorphism.
GraphSizes == {0, 1, 2, 3}
Graphs == UNION {GraphsOn(n) : n \in GraphSizes}

\* random.sample(nodes, kn): any sequence of kn distinct nodes.
Samples(n, r) == {s \in [1..r -> 1..n] : \A a, b \in 1..r : a # b => s[a] # s[b]}

\* ------------------------------------------------------------- inputs
KValues == {Rat(0, 1), Rat(1, 2), Rat(3, 4), Rat(1, 1)}

\* Budgets as passed: absolute counts, or fractions of C(n, kn).
Counts == {IntVal(b) : b \in 1..MaxBudget}
Fractions == {FloatVal(1, 2), FloatVal(1, 1)}
Ascending(a, b) == a.num * b.den < b.num * a.den
\* check_points as passed: empty, one budget, or two budgets of one kind in
\* ascending order.
CheckPointLists ==
    {<<>>} \cup {<<a>> : a \in Counts \cup Fractions}
           \cup {p \in (Counts \X Counts) \cup (Fractions \X Fractions) :
                    Ascending(p[1], p[2])}

\* ------------------------------------------------------------- state
VARIABLES
    pc,                 \* position in the running call
    fn,                 \* the method called: "solve" or "solve_at_checkpoints"
    solutions,          \* ISDPSolver.solutions
    graph, k, num_repetitions, num_attempts,
    check_points_arg,   \* check_points (or <<num_iterations>>) as passed
    check_points,       \* the budgets after normalisation
    iteration_percentages,
    success_count_at_checkpoints, iterations_checked_at_checkpoints,
    example_solution_at_checkpoints, operations_count_at_checkpoints,
    num_iterations, iterations_percentage,                 \* solve only
    success_count, iterations_checked, example_solution,   \* solve only
    repetition, iteration,
    selected_vertices_set, selected_vertices, operations_count,
    returned,           \* "none", "Solution", "list" or "raise"
    result,             \* the records returned, in order
    error,              \* the exception raised
    clock,              \* what perf_counter() returns now
    start_repetitions,  \* solve only
    start_repetition, repetition_times_at_checkpoints,
    seed_uses,          \* random.seed(s) calls so far, all with one s
    tape,               \* the outputs of the generator seeded with s, as far as known
    pos,                \* outputs consumed since the last random.seed(s)
    previous,           \* what the call before the last random.seed(s) returned
    probe,              \* a pure function, its arguments and its value (SpecFunctions)
    history,            \* per repetition: what its trials were (observer)
    tested,             \* subsets independence-checked in this repetition (observer)
    draws               \* random.sample calls of the last iteration (observer)

inputs == <<graph, k, num_repetitions, num_attempts, check_points_arg>>
normalised == <<check_points, iteration_percentages>>
at_checkpoints == <<success_count_at_checkpoints, iterations_checked_at_checkpoints,
                    example_solution_at_checkpoints, operations_count_at_checkpoints>>
solve_locals == <<num_iterations, iterations_percentage, success_count,
                  iterations_checked, example_solution>>
loop == <<repetition, iteration, selected_vertices_set, selected_vertices,
          operations_count>>
outcome == <<returned, result, error>>
timing == <<start_repetitions, start_repetition, repetition_times_at_checkpoints>>
generator == <<seed_uses, tape, pos, previous>>
observers == <<history, tested, draws>>
vars == <<pc, fn, solutions, inputs, normalised, at_checkpoints, solve_locals, loop,
          outcome, clock, timing, generator, probe, observers>>

n == number_of_nodes(graph)

\* ISDPSolver._adjust_k
adjust_k(g, kk) ==
    LET m == number_of_nodes(g)
        v == Trunc(kk.num * m, kk.den)
    IN  Min({Max({0, v}), m})

kn == adjust_k(graph, k)
max_combinations == comb(n, kn)

NoProbe == [f |-> "none"]

\* A new ISDPSolver, nothing called yet.
Constructed ==
    /\ pc = "idle"
    /\ fn = "none"
    /\ solutions = <<>>
    /\ graph = [n |-> 0, edges |-> {}]
    /\ k = Rat(0, 1)
    /\ num_repetitions = 0
    /\ num_attempts = 0
    /\ check_points_arg = <<>>
    /\ check_points = <<>>
    /\ iteration_percentages = <<>>
    /\ success_count_at_checkpoints = <<>>
    /\ iterations_checked_at_checkpoints = <<>>
    /\ example_solution_at_checkpoints = <<>>
    /\ operations_count_at_checkpoints = <<>>
    /\ num_iterations = 0
    /\ iterations_percentage = Rat(0, 1)
    /\ success_count = 0
    /\ iterations_checked = <<>>
    /\ example_solution = None
    /\ repetition = 0
    /\ iteration = 0
    /\ selected_vertices_set = {}
    /\ selected_vertices = <<>>
    /\ operations_count = 0
    /\ returned = "none"
    /\ result = <<>>
    /\ error = "none"
    /\ clock = 0
    /\ start_repetitions = 0
    /\ start_repetition = 0
    /\ repetition_times_at_checkpoints = <<>>
    /\ tape = <<>>
    /\ pos = 0
    /\ previous = <<>>
    /\ history = <<>>
    /\ tested = {}
    /\ draws = 0

Init ==
    /\ Constructed
    /\ seed_uses = 0
    /\ probe = NoProbe

\* ------------------------------------------------------------- Solution
Solution(kk, knn, sc, succ, verts, prob, mn, mx, avg_succ, avg_iter, iters, pct, reps, ops, tt, art) ==
    [k |-> kk, kn |-> knn, success_count |-> sc, success |-> succ, vertices |-> verts,
     total_time |-> tt, average_repetition_time |-> art,
     success_probability |-> prob, min_success_iteration |-> mn,
     max_success_iteration |-> mx, average_success_iteration |-> avg_succ,
     average_iterations |-> avg_iter, iterations |-> iters,
     iterations_percentage |-> pct, repetitions |-> reps,
     average_operations_count |-> ops]

RatLeq(a, b) == a.num * b.den <= b.num * a.den
MaxRat(S) == CHOOSE x \in S : \A y \in S : RatLeq(y, x)

\* ------------------------------------------------------------- entry
\* solve_at_checkpoints up to its repetition loop: normalisation of the
\* checkpoints and the two closed-form returns.
any_float(cps) == \E i \in DOMAIN cps : cps[i].is_float

normalise_check_points(cps, mc) ==
    IF any_float(cps)
    THEN [i \in DOMAIN cps |-> Trunc(cps[i].num * mc, cps[i].den)]
    ELSE [i \in DOMAIN cps |-> cps[i].num]

percentages(cps, mc) ==
    IF any_float(cps)
    THEN [i \in DOMAIN cps |-> Rat(cps[i].num, cps[i].den)]
    ELSE [i \in DOMAIN cps |-> Rat(cps[i].num, mc)]

trivial_solution_per_repetition(kk, knn, cp, pct, reps) ==
    Solution(kk, knn, 1, TRUE, Some(<<>>), Rat(1, Max({reps, 1})), 0, 0, Rat(0, 1),
             Rat(0, 1), Max(Range(cp)), MaxRat(Range(pct)), reps, Rat(0, 1), 0, Rat(0, 1))
\* The record returned for kn == 0.
trivial_solution(kk, knn, cp, pct, reps) ==
    Solution(kk, knn, 1, TRUE, Some(<<>>), Rat(1, 1), 0, 0, Rat(0, 1), Rat(0, 1),
             Max(Range(cp)), MaxRat(Range(pct)), reps, Rat(0, 1), 0, Rat(0, 1))

\* The record returned for kn > n or n == 0; its vertices are the list
\* example_solution_at_checkpoints itself.
impossible_solution(kk, knn, cp, pct, reps) ==
    Solution(kk, knn, 0, FALSE, Some([i \in DOMAIN cp |-> None]), Rat(0, 1),
             None, None, None, Rat(0, 1),
             Max(Range(cp)), MaxRat(Range(pct)), reps, Rat(0, 1), 0, Rat(0, 1))

EnterCheckpoints(g, kk, cps, reps, att) ==
    LET knn == adjust_k(g, kk)
        m == number_of_nodes(g)
        mc == comb(m, knn)
        cp == normalise_check_points(cps, mc)
        pct == percentages(cps, mc)
    IN  /\ fn' = "solve_at_checkpoints"
        /\ graph' = g
        /\ k' = kk
        /\ check_points_arg' = cps
        /\ num_repetitions' = reps
        /\ num_attempts' = att
        /\ check_points' = cp
        /\ iteration_percentages' = pct
        /\ success_count_at_checkpoints' = [i \in DOMAIN cps |-> 0]
        /\ iterations_checked_at_checkpoints' = [i \in DOMAIN cps |-> <<>>]
        /\ example_solution_at_checkpoints' = [i \in DOMAIN cps |-> None]
        /\ operations_count_at_checkpoints' = [i \in DOMAIN cps |-> <<>>]
        /\ repetition_times_at_checkpoints' = [i \in DOMAIN cps |-> <<>>]
        /\ IF (knn = 0 \/ knn > m \/ m = 0) /\ cp = <<>>
           THEN \* max() of an empty list
                /\ pc' = "done"
                /\ returned' = "raise"
                /\ error' = "ValueError"
                /\ result' = <<>>
           ELSE IF knn = 0
           THEN /\ pc' = "done"
                /\ returned' = "Solution"
                /\ error' = "none"
                /\ result' = <<trivial_solution(kk, knn, cp, pct, reps)>>
           ELSE IF knn > m \/ m = 0
           THEN /\ pc' = "done"
                /\ returned' = "Solution"
                /\ error' = "none"
                /\ result' = <<impossible_solution(kk, knn, cp, pct, reps)>>
           ELSE /\ pc' = "rep"
                /\ returned' = "none"
                /\ error' = "none"
                /\ result' = <<>>
        /\ repetition' = 0
        /\ history' = <<>>
        /\ UNCHANGED <<solutions, solve_locals, iteration, selected_vertices_set,
                       selected_vertices, operations_count, tested, draws,
                       clock, start_repetitions, start_repetition, probe>>

\* The generator is left as it is: the caller of EnterCheckpoints says whether
\* random.seed came before the call.
CallSolveAtCheckpoints ==
    /\ pc = "idle"
    /\ \E g \in Graphs, kk \in KValues, cps \in CheckPointLists,
          reps \in 0..MaxRepetitions, att \in 0..MaxAttempts :
          EnterCheckpoints(g, kk, cps, reps, att)
    /\ UNCHANGED generator

\* solve up to its repetition loop. Both closed-form returns construct a
\* Solution without average_operations_count, a required parameter.
MinFloatIterations == 10

EnterSolve(g, kk, ni, reps, att) ==
    LET knn == adjust_k(g, kk)
        m == number_of_nodes(g)
        mc == comb(m, knn)
    IN  /\ fn' = "solve"
        /\ graph' = g
        /\ k' = kk
        /\ check_points_arg' = <<ni>>
        /\ num_repetitions' = reps
        /\ num_attempts' = att
        /\ num_iterations' = IF ni.is_float
                             THEN Max({Trunc(ni.num * mc, ni.den), MinFloatIterations})
                             ELSE ni.num
        /\ iterations_percentage' = IF ni.is_float THEN Rat(ni.num, ni.den)
                                    ELSE Rat(ni.num, mc)
        /\ success_count' = 0
        /\ operations_count' = 0
        /\ iterations_checked' = <<>>
        /\ example_solution' = None
        /\ start_repetitions' = clock
        /\ IF knn = 0 \/ knn > m \/ m = 0
           THEN /\ pc' = "done"
                /\ returned' = "raise"
                /\ error' = "TypeError"
                /\ result' = <<>>
           ELSE /\ pc' = "rep"
                /\ returned' = "none"
                /\ error' = "none"
                /\ result' = <<>>
        /\ repetition' = 0
        /\ history' = <<>>
        /\ UNCHANGED <<solutions, normalised, at_checkpoints, iteration,
                       selected_vertices_set, selected_vertices, tested, draws,
                       clock, start_repetition, repetition_times_at_checkpoints, probe>>

CallSolve ==
    /\ pc = "idle"
    /\ \E g \in Graphs, kk \in KValues, ni \in Counts,
          reps \in 0..MaxRepetitions, att \in 0..MaxAttempts :
          EnterSolve(g, kk, ni, reps, att)
    /\ UNCHANGED generator

\* ------------------------------------------------------------- the loops
\* What the observer keeps of a repetition: the 1-indexed iteration of its first
\* trial on an independent subset (0: none), the checkpoints whose success count
\* it raised, the checkpoints it gave a snapshot (of success or of failure),
\* whether a trial re-checked a subset already checked in the repetition, and
\* how the repetition ended.
IsIndependentSet(g, S) == \A u, v \in S : u # v => ~has_edge(g, u, v)

NewRepetition ==
    [first |-> 0, counted |-> {}, snapshots |-> {}, repeated |-> FALSE, end |-> "running"]

iteration_limit_one_more ==
    IF fn = "solve" THEN num_iterations ELSE Max(Range(check_points)) + 1
iteration_limit == IF fn = "solve" THEN num_iterations ELSE Max(Range(check_points))

\* for repetition in range(num_repetitions): the head of one more repetition.
NextRepetition ==
    /\ pc = "rep"
    /\ repetition < num_repetitions
    /\ IF fn = "solve_at_checkpoints" /\ check_points = <<>>
       THEN \* range(max(check_points)) on an empty list
            /\ pc' = "done"
            /\ returned' = "raise"
            /\ error' = "ValueError"
            /\ UNCHANGED <<result, history, operations_count>>
       ELSE /\ pc' = "iter"
            /\ history' = Append(history, NewRepetition)
            /\ operations_count' = IF fn = "solve" THEN operations_count ELSE 0
            /\ UNCHANGED outcome
    /\ start_repetition' = IF fn = "solve" THEN start_repetition ELSE clock
    /\ selected_vertices_set' = {}
    /\ iteration' = 0
    /\ UNCHANGED <<fn, solutions, inputs, normalised, at_checkpoints, solve_locals,
                   repetition, selected_vertices, tested, draws,
                   clock, start_repetitions, repetition_times_at_checkpoints,
                   generator, probe>>

\* `if len(selected_vertices_set) == max_combinations: break`
ledger_exhausted_early(ledger, mc) == Cardinality(ledger) >= mc - 1
ledger_exhausted(ledger, mc) == Cardinality(ledger) = mc

EndAs(how) == [history EXCEPT ![Len(history)].end = how]

\* The inner loop is over (its range is used up, or the ledger is full). The
\* locals of a finished repetition are never read again; they are dropped here.
EndRepetition ==
    /\ pc = "iter"
    /\ \/ iteration >= iteration_limit
       \/ ledger_exhausted(selected_vertices_set, max_combinations)
    /\ pc' = "rep"
    /\ repetition' = repetition + 1
    /\ history' = EndAs(IF iteration >= iteration_limit THEN "budget" ELSE "exhausted")
    /\ iteration' = 0
    /\ selected_vertices_set' = {}
    /\ selected_vertices' = <<>>
    /\ tested' = {}
    /\ draws' = 0
    /\ UNCHANGED <<fn, solutions, inputs, normalised, at_checkpoints, solve_locals,
                   operations_count, outcome, clock, timing, generator, probe>>

\* `for _ in range(num_attempts)` from a draw d with `passes` passes left: a
\* subset not in the ledger is recorded and kept; one in the ledger is redrawn,
\* and the draw of the last pass is kept as it is. Each way the loop can go is
\* [sel: the subset kept, add: whether it was recorded, seq: what the
\* random.sample calls returned, in order]; of an unseeded generator, whose
\* outputs nothing can ask for again, seq keeps only how many there were.
output(d) == IF seed_uses = 0 THEN <<>> ELSE d

RECURSIVE attempts(_, _, _, _)
attempts(ledger, d, passes, drawn) ==
    IF passes <= 0
    THEN {[sel |-> d, add |-> FALSE, seq |-> drawn]}
    ELSE IF Range(d) \notin ledger
    THEN {[sel |-> d, add |-> TRUE, seq |-> drawn]}
    ELSE UNION {attempts(ledger, d2, passes - 1, Append(drawn, output(d2))) : d2 \in Samples(n, kn)}

draw_subset(ledger) ==
    UNION {attempts(ledger, d, num_attempts, <<output(d)>>) : d \in Samples(n, kn)}

\* The generator. Unseeded, random.sample returns anything. Seeded, its outputs
\* from position pos on are those on the tape, as far as the tape goes, and
\* anything beyond it, which the tape then keeps.
replays_anything(seq) == TRUE
replays(seq) ==
    IF seed_uses = 0 THEN TRUE
    ELSE \A j \in 1..Len(seq) : pos + j <= Len(tape) => seq[j] = tape[pos + j]

fits_tape(seq) == IF seed_uses = 0 THEN TRUE ELSE pos + Len(seq) <= MaxTape

tape_after(seq) ==
    IF seed_uses = 0 THEN tape
    ELSE IF pos + Len(seq) <= Len(tape) THEN tape
    ELSE SubSeq(tape, 1, pos) \o seq

pos_after(seq) == IF seed_uses = 0 THEN pos ELSE pos + Len(seq)

\* The pair loop: for each u, the pairs (u, v) with v after u are examined in
\* order until one is an edge; that `break` leaves the inner loop only.
examined_from(g, sel, i) ==
    LET hits == {j \in (i + 1)..Len(sel) : has_edge(g, sel[i], sel[j])}
    IN  IF hits = {} THEN Len(sel) - i ELSE Min(hits) - i

RECURSIVE pairs_examined_to(_, _, _)
pairs_examined_to(g, sel, i) ==
    IF i = 0 THEN 0 ELSE pairs_examined_to(g, sel, i - 1) + examined_from(g, sel, i)

pairs_examined(g, sel) == pairs_examined_to(g, sel, Len(sel))

is_independent_set_first_row(g, sel) ==
    \A i \in 1..Len(sel) : \A j \in (i + 1)..Len(sel) :
        i = 1 => ~has_edge(g, sel[i], sel[j])
is_independent_set(g, sel) ==
    \A i \in 1..Len(sel) : \A j \in (i + 1)..Len(sel) : ~has_edge(g, sel[i], sel[j])

\* `if iteration < check_point` (iteration is 0-indexed)
success_applies_strict(it, check_point) == it + 1 < check_point
success_applies_inverted(it, check_point) == it >= check_point
success_applies_always(it, check_point) == TRUE
success_applies(it, check_point) == it < check_point

\* `if (iteration + 1) in check_points` and check_points.index(iteration + 1)
snapshot_index(cps, it) ==
    IF \E i \in DOMAIN cps : cps[i] = it + 1
    THEN Min({i \in DOMAIN cps : cps[i] = it + 1})
    ELSE 0

Observe(sel, ind) ==
    LET h == history[Len(history)]
    IN  [history EXCEPT ![Len(history)] =
            [first |-> IF h.first = 0 /\ IsIndependentSet(graph, Range(sel))
                       THEN iteration + 1 ELSE h.first,
             counted |-> IF ind /\ fn = "solve_at_checkpoints"
                         THEN {i \in DOMAIN check_points :
                                  success_applies(iteration, check_points[i])}
                         ELSE h.counted,
             snapshots |-> IF fn # "solve_at_checkpoints" THEN h.snapshots
                           ELSE IF ind
                           THEN h.snapshots \cup
                                {i \in DOMAIN check_points :
                                    success_applies(iteration, check_points[i])}
                           ELSE h.snapshots \cup
                                {i \in DOMAIN check_points :
                                    i = snapshot_index(check_points, iteration)},
             repeated |-> h.repeated \/ Range(sel) \in tested,
             end |-> IF ind THEN "success" ELSE "running"]]

\* `operations_count += n`, once per iteration, before the retries.
sampling_operations_per_draw(seq) == n * Len(seq)
sampling_operations(seq) == n

\* One iteration of the inner loop: the draw with its retries, charged n
\* operations once; the independence check of the kept subset; then the success
\* bookkeeping and `break` (the locals of the finished repetition are dropped),
\* or the failure snapshot.
Iteration ==
    /\ pc = "iter"
    /\ iteration < iteration_limit
    /\ ~ledger_exhausted(selected_vertices_set, max_combinations)
    /\ \E d \in draw_subset(selected_vertices_set) :
        LET sel == d.sel
            ind == is_independent_set(graph, sel)
            ops == operations_count + sampling_operations(d.seq)
                                   + pairs_examined(graph, sel) + 1
            at == snapshot_index(check_points, iteration)
        IN  /\ replays(d.seq)
            /\ fits_tape(d.seq)
            /\ tape' = tape_after(d.seq)
            /\ pos' = pos_after(d.seq)
            /\ operations_count' = ops
            /\ history' = Observe(sel, ind)
            /\ IF ind
               THEN /\ pc' = "rep"
                    /\ repetition' = repetition + 1
                    /\ iteration' = 0
                    /\ selected_vertices_set' = {}
                    /\ selected_vertices' = <<>>
                    /\ tested' = {}
                    /\ draws' = 0
               ELSE /\ pc' = "iter"
                    /\ iteration' = iteration + 1
                    /\ selected_vertices_set' =
                          IF d.add THEN selected_vertices_set \cup {Range(sel)}
                          ELSE selected_vertices_set
                    /\ selected_vertices' = sel
                    /\ tested' = tested \cup {Range(sel)}
                    /\ draws' = Len(d.seq)
                    /\ UNCHANGED repetition
            /\ IF fn = "solve"
               THEN /\ success_count' = IF ind THEN success_count + 1 ELSE success_count
                    /\ iterations_checked' = IF ind THEN Append(iterations_checked, iteration + 1)
                                             ELSE iterations_checked
                    /\ example_solution' = IF ind THEN Some(sel) ELSE example_solution
                    /\ UNCHANGED <<num_iterations, iterations_percentage, at_checkpoints,
                                   repetition_times_at_checkpoints>>
               ELSE /\ success_count_at_checkpoints' =
                         [i \in DOMAIN check_points |->
                             IF ind /\ success_applies(iteration, check_points[i])
                             THEN success_count_at_checkpoints[i] + 1
                             ELSE success_count_at_checkpoints[i]]
                    /\ iterations_checked_at_checkpoints' =
                         [i \in DOMAIN check_points |->
                             IF ind /\ success_applies(iteration, check_points[i])
                             THEN Append(iterations_checked_at_checkpoints[i], iteration + 1)
                             ELSE iterations_checked_at_checkpoints[i]]
                    /\ example_solution_at_checkpoints' =
                         [i \in DOMAIN check_points |->
                             IF ind /\ success_applies(iteration, check_points[i])
                             THEN Some(sel)
                             ELSE example_solution_at_checkpoints[i]]
                    /\ operations_count_at_checkpoints' =
                         [i \in DOMAIN check_points |->
                             IF \/ ind /\ success_applies(iteration, check_points[i])
                                \/ ~ind /\ i = at
                             THEN Append(operations_count_at_checkpoints[i], ops)
                             ELSE operations_count_at_checkpoints[i]]
                    /\ repetition_times_at_checkpoints' =
                         [i \in DOMAIN check_points |->
                             IF \/ ind /\ success_applies(iteration, check_points[i])
                                \/ ~ind /\ i = at
                             THEN Append(repetition_times_at_checkpoints[i],
                                         clock - start_repetition)
                             ELSE repetition_times_at_checkpoints[i]]
                    /\ UNCHANGED solve_locals
    /\ UNCHANGED <<fn, solutions, inputs, normalised, outcome, clock,
                   start_repetitions, start_repetition, seed_uses, previous, probe>>

\* ------------------------------------------------------------- aggregation
success_probability_of(count, reps) == IF reps > 0 THEN Rat(count, reps) ELSE Rat(0, 1)
min_iteration_for_success_zero(checked) == IF Len(checked) > 0 THEN Min(Range(checked)) ELSE 0
min_iteration_for_success(checked) == IF Len(checked) > 0 THEN Min(Range(checked)) ELSE 0 - 1
max_iteration_for_success_first(checked) == IF Len(checked) > 0 THEN checked[1] ELSE 0 - 1
max_iteration_for_success(checked) == IF Len(checked) > 0 THEN Max(Range(checked)) ELSE 0 - 1
average_iteration_for_success(checked) ==
    IF Len(checked) > 0 THEN Rat(Sum(checked), Len(checked)) ELSE Rat(0 - 1, 1)
average_iterations_of_all_failed(checked, budget, reps) ==
    IF reps > 0 THEN Rat(Sum(checked \o Repeat(budget, reps)), reps) ELSE Rat(0, 1)
average_iterations_of_successes(checked, budget, reps) ==
    IF reps > 0 THEN Rat(Sum(checked), reps) ELSE Rat(0, 1)
average_iterations_of(checked, budget, reps) ==
    IF reps > 0
    THEN Rat(Sum(checked \o Repeat(budget, reps - Len(checked))), reps)
    ELSE Rat(0, 1)
average_operations_count_of(counts) ==
    IF Len(counts) > 0 THEN Rat(Sum(counts), Len(counts)) ELSE Rat(0, 1)
total_time_of(times) == Sum(times)
average_repetition_time_of(times) ==
    IF Len(times) > 0 THEN Rat(Sum(times), Len(times)) ELSE Rat(0, 1)

\* The records of lines 406-431, from the per-checkpoint accumulators.
records_of(counts, checked_at, examples, operations, times) ==
    [i \in DOMAIN check_points |->
        LET prob == success_probability_of(counts[i], num_repetitions)
            checked == checked_at[i]
        IN  Solution(k, kn, counts[i], prob.num > 0,
                     examples[i], prob,
                     min_iteration_for_success(checked),
                     max_iteration_for_success(checked),
                     average_iteration_for_success(checked),
                     average_iterations_of(checked, check_points[i], num_repetitions),
                     check_points[i], iteration_percentages[i], num_repetitions,
                     average_operations_count_of(operations[i]),
                     total_time_of(times[i]),
                     average_repetition_time_of(times[i]))]

solution_at_checkpoints ==
    records_of(success_count_at_checkpoints, iterations_checked_at_checkpoints,
               example_solution_at_checkpoints, operations_count_at_checkpoints,
               repetition_times_at_checkpoints)

solve_solution ==
    LET prob == success_probability_of(success_count, num_repetitions)
        total_time == clock - start_repetitions
    IN  Solution(k, kn, success_count, prob.num > 0, example_solution, prob,
                 min_iteration_for_success(iterations_checked),
                 max_iteration_for_success(iterations_checked),
                 average_iteration_for_success(iterations_checked),
                 average_iterations_of(iterations_checked, num_iterations, num_repetitions),
                 num_iterations, iterations_percentage, num_repetitions,
                 Rat(operations_count, num_repetitions),
                 total_time,
                 IF num_repetitions > 0 THEN Rat(total_time, num_repetitions)
                 ELSE Rat(0, 1))

\* After the last repetition: the statistics, the records, the session list.
Return ==
    /\ pc = "rep"
    /\ repetition >= num_repetitions
    /\ pc' = "done"
    /\ IF fn = "solve"
       THEN IF num_repetitions = 0
            THEN \* operations_count / num_repetitions
                 /\ returned' = "raise"
                 /\ error' = "ZeroDivisionError"
                 /\ UNCHANGED <<result, solutions>>
            ELSE /\ returned' = "Solution"
                 /\ result' = <<solve_solution>>
                 /\ solutions' = Append(solutions, solve_solution)
                 /\ UNCHANGED error
       ELSE /\ returned' = "list"
            /\ result' = solution_at_checkpoints
            /\ solutions' = solutions \o solution_at_checkpoints
            /\ UNCHANGED error
    /\ UNCHANGED <<fn, inputs, normalised, at_checkpoints, solve_locals, loop, observers,
                   clock, timing, generator, probe>>

Next ==
    \/ CallSolveAtCheckpoints
    \/ CallSolve
    \/ NextRepetition
    \/ Iteration
    \/ EndRepetition
    \/ Return

Spec == Init /\ [][Next]_vars

\* ------------------------------------------------------------- seeded runs
\* The clock moves on. A reading is compared only with the reading at the
\* start of the same repetition (solve_at_checkpoints) or of the same call
\* (solve), so the ticks outside those spans are left out.
Tick ==
    /\ pc = "iter" \/ (pc = "rep" /\ fn = "solve")
    /\ clock < MaxClock
    /\ clock' = clock + 1
    /\ UNCHANGED <<pc, fn, solutions, inputs, normalised, at_checkpoints, solve_locals,
                   loop, outcome, timing, generator, probe, observers>>

\* random.seed(s) once more, then solve_at_checkpoints with the arguments of
\* the call that has just returned.
SeedAndCallAgain ==
    /\ pc = "done"
    /\ fn = "solve_at_checkpoints"
    /\ seed_uses = 1
    /\ seed_uses' = 2
    /\ pos' = 0
    /\ previous' = result
    /\ UNCHANGED tape
    /\ EnterCheckpoints(graph, k, check_points_arg, num_repetitions, num_attempts)

\* solve_at_checkpoints as its interface asks: at least one checkpoint, one
\* repetition and one attempt.
CallSeeded ==
    /\ pc = "idle"
    /\ \E g \in Graphs, kk \in KValues, cps \in CheckPointLists \ {<<>>},
          reps \in 1..MaxRepetitions, att \in 1..MaxAttempts :
          EnterCheckpoints(g, kk, cps, reps, att)
    /\ UNCHANGED generator

\* A new ISDPSolver after random.seed(s).
InitSeeded ==
    /\ Constructed
    /\ seed_uses = 1
    /\ probe = NoProbe

NextSeeded ==
    \/ CallSeeded
    \/ NextRepetition
    \/ Iteration
    \/ EndRepetition
    \/ Return
    \/ SeedAndCallAgain
    \/ Tick

SpecSeeded == InitSeeded /\ [][NextSeeded]_vars

\* ------------------------------------------------------------- long budgets
\* solve_at_checkpoints on the complete graphs, where no trial of two or more
\* nodes succeeds, with budgets up to one more than MaxBudget: a repetition
\* can fill the ledger of the C(3, 2) subsets and still have a checkpoint ahead.
CompleteGraphs == {[n |-> m, edges |-> Pairs(m)] : m \in 2..3}
LongCounts == {IntVal(b) : b \in 1..(MaxBudget + 1)}
LongCheckPointLists ==
    {<<a>> : a \in LongCounts} \cup {p \in LongCounts \X LongCounts : Ascending(p[1], p[2])}

CallOnCompleteGraph ==
    /\ pc = "idle"
    /\ \E g \in CompleteGraphs, kk \in KValues, cps \in LongCheckPointLists,
          reps \in 0..MaxRepetitions, att \in 0..MaxAttempts :
          EnterCheckpoints(g, kk, cps, reps, att)
    /\ UNCHANGED generator

NextLong ==
    \/ CallOnCompleteGraph
    \/ NextRepetition
    \/ Iteration
    \/ EndRepetition
    \/ Return

SpecLong == Init /\ [][NextLong]_vars

\* ------------------------------------------------------------- pure functions
\* _adjust_k and the normalisation of check_points, applied to arguments of
\* either kind: k an int or a float in [0, 1], a list of counts, of fractions,
\* or of both.
ProbeK == {IntVal(a) : a \in 0..MaxNodes} \cup {FloatVal(a, 4) : a \in 0..4}
ProbeBudgets == Counts \cup {FloatVal(a, 4) : a \in 1..4}
ProbeLists ==
    {<<>>} \cup {<<a>> : a \in ProbeBudgets}
           \cup {p \in ProbeBudgets \X ProbeBudgets : Ascending(p[1], p[2])}
ProbeCombinations == {comb(m, r) : m \in 1..MaxNodes, r \in 0..MaxNodes}  \ {0}

AdjustProbes ==
    {[f |-> "_adjust_k", nodes |-> m, k |-> kk, done |-> FALSE, out |-> 0] :
        m \in 0..MaxNodes, kk \in ProbeK}
NormaliseProbes ==
    {[f |-> "check_points", max_combinations |-> mc, list |-> l, done |-> FALSE,
      out |-> <<>>, percentages |-> <<>>] :
        mc \in ProbeCombinations, l \in ProbeLists}

InitFunctions ==
    /\ Constructed
    /\ seed_uses = 0
    /\ probe \in AdjustProbes \cup NormaliseProbes

others == <<pc, fn, solutions, inputs, normalised, at_checkpoints, solve_locals, loop,
            outcome, clock, timing, generator, observers>>

ApplyAdjustK ==
    /\ probe.f = "_adjust_k"
    /\ ~probe.done
    /\ probe' = [probe EXCEPT !.done = TRUE,
                              !.out = adjust_k([n |-> probe.nodes, edges |-> {}], probe.k)]
    /\ UNCHANGED others

ApplyNormalise ==
    /\ probe.f = "check_points"
    /\ ~probe.done
    /\ probe' = [probe EXCEPT
                    !.done = TRUE,
                    !.out = normalise_check_points(probe.list, probe.max_combinations),
                    !.percentages = percentages(probe.list, probe.max_combinations)]
    /\ UNCHANGED others

NextFunctions ==
    \/ ApplyAdjustK
    \/ ApplyNormalise

SpecFunctions == InitFunctions /\ [][NextFunctions]_vars

\* ------------------------------------------------------------- properties
RatEq(a, b) == a.num * b.den = b.num * a.den
One == Rat(1, 1)
Zero == Rat(0, 1)
NoData == 0 - 1

HasIndependentSet(g, r) ==
    \E S \in SUBSET (1..number_of_nodes(g)) : Cardinality(S) = r /\ IsIndependentSet(g, S)

AtCheckpoints == fn = "solve_at_checkpoints"
Listed == AtCheckpoints /\ pc = "done" /\ returned = "list"

\* Repetitions whose first trial on an independent subset came at an iteration
\* i <= the budget of checkpoint c.
FirstBy(c) ==
    Cardinality({r \in DOMAIN history :
                    history[r].first # 0 /\ history[r].first <= check_points[c]})

\* C1: the success count of every checkpoint c is the number of repetitions
\* whose first independent trial came at a 1-indexed iteration i <= c, while the
\* call runs and in the records it returns.
C1_SuccessCountIsFirstTrialsByCheckpoint ==
    /\ AtCheckpoints /\ pc \in {"rep", "iter"} =>
          \A c \in DOMAIN check_points : success_count_at_checkpoints[c] = FirstBy(c)
    /\ Listed => \A c \in DOMAIN check_points : result[c].success_count = FirstBy(c)

C1_Witness ==
    /\ Listed
    /\ Len(check_points) = 2
    /\ \E r \in DOMAIN history :
          check_points[1] < history[r].first /\ history[r].first <= check_points[2]
    /\ \E r \in DOMAIN history :
          history[r].first # 0 /\ history[r].first <= check_points[1]
    /\ result[1].success_count = 1
    /\ result[2].success_count = 2

\* C2: of two checkpoints c1 < c2 of one call, every repetition counted as a
\* success at c1 is counted at c2, so the success count and the success
\* probability at c2 are at least those at c1.
C2_Monotonicity ==
    Listed =>
        \A c1, c2 \in DOMAIN check_points :
            check_points[c1] < check_points[c2] =>
                /\ \A r \in DOMAIN history :
                      c1 \in history[r].counted => c2 \in history[r].counted
                /\ result[c1].success_count <= result[c2].success_count
                /\ RatLeq(result[c1].success_probability, result[c2].success_probability)

C2_Witness ==
    /\ Listed
    /\ Len(check_points) = 2
    /\ check_points[1] < check_points[2]
    /\ \E r \in DOMAIN history : history[r].counted = {1, 2}
    /\ \E r \in DOMAIN history : history[r].counted = {2}

\* C3: a record that carries a witness subset (vertices is not None) carries
\* exactly kn pairwise distinct nodes of the graph, no two of them adjacent.
ValidWitness(l, r) ==
    /\ Len(l) = r
    /\ \A a \in DOMAIN l : l[a] \in 1..n
    /\ \A a, b \in DOMAIN l : a # b => l[a] # l[b] /\ ~has_edge(graph, l[a], l[b])

C3_WitnessValidity ==
    \A rec \in Range(result) \cup Range(solutions) :
        ~rec.vertices.none => ValidWitness(rec.vertices.list, rec.kn)

C3_Witness ==
    /\ Listed
    /\ kn = 2
    /\ graph.edges # {}
    /\ \E c \in DOMAIN result : ~result[c].vertices.none

\* C4: with kn = 0 solve_at_checkpoints samples nothing and what it returns has
\* success probability exactly 1, successful iteration 0 (min, max, mean) and
\* zero operations.
C4_TrivialSize ==
    AtCheckpoints /\ pc = "done" /\ kn = 0 /\ check_points # <<>> =>
        /\ returned # "raise"
        /\ result # <<>>
        /\ history = <<>>
        /\ operations_count = 0
        /\ \A rec \in Range(result) :
              /\ RatEq(rec.success_probability, One)
              /\ rec.success
              /\ rec.min_success_iteration = 0
              /\ rec.max_success_iteration = 0
              /\ RatEq(rec.average_success_iteration, Zero)
              /\ RatEq(rec.average_operations_count, Zero)

C4_Witness ==
    /\ AtCheckpoints /\ pc = "done" /\ kn = 0
    /\ n = 3
    /\ num_repetitions = 2
    /\ Len(check_points) = 2
    /\ result # <<>>

\* C5 (as claimed): on a graph with no nodes (or with kn > n), called with
\* num_repetitions >= 1 and num_attempts >= 1, every record has success
\* probability 0, success flag false and no witness.
C5_NoNodesFails ==
    AtCheckpoints /\ pc = "done" /\ returned # "raise" /\ (n = 0 \/ kn > n)
                  /\ num_repetitions >= 1 /\ num_attempts >= 1 =>
        \A rec \in Range(result) :
            /\ RatEq(rec.success_probability, Zero)
            /\ ~rec.success
            /\ rec.vertices.none

\* C6 (as claimed): a call with a non-empty checkpoint list, num_repetitions
\* >= 1 and num_attempts >= 1 that returns, returns one record per checkpoint,
\* in order, each with that checkpoint's budget.
C6_OneRecordPerCheckpoint ==
    AtCheckpoints /\ pc = "done" /\ returned # "raise" /\ check_points_arg # <<>>
                  /\ num_repetitions >= 1 /\ num_attempts >= 1 =>
        /\ Len(result) = Len(check_points)
        /\ \A c \in DOMAIN check_points : result[c].iterations = check_points[c]

C8_NoIndependentSet ==
    AtCheckpoints /\ pc = "done" /\ returned # "raise" /\ ~HasIndependentSet(graph, kn) =>
        \A rec \in Range(result) :
            /\ rec.success_count = 0
            /\ RatEq(rec.success_probability, Zero)
            /\ ~rec.success
            /\ rec.vertices.none
            /\ rec.min_success_iteration = NoData
            /\ rec.max_success_iteration = NoData
            /\ RatEq(rec.average_success_iteration, Rat(NoData, 1))

C8_Witness ==
    /\ Listed /\ ~HasIndependentSet(graph, kn)
    /\ num_repetitions = 2
    /\ Len(result) = 2
    /\ kn = 2
    /\ Len(history) = 2
    /\ history[1].end = "budget"
    /\ history[2].end = "budget"

\* C9: on an edgeless graph with 1 <= kn <= n, budgets >= 1 and at least one
\* repetition, every repetition succeeds on its first trial: every record has
\* success probability 1, min = max = mean successful iteration = 1 and
\* average_iterations = 1.
C9_EdgelessFirstTrial ==
    Listed /\ graph.edges = {} /\ 1 <= kn /\ kn <= n /\ num_repetitions >= 1
           /\ (\A c \in DOMAIN check_points : check_points[c] >= 1) =>
        /\ \A r \in DOMAIN history : history[r].first = 1
        /\ \A rec \in Range(result) :
              /\ RatEq(rec.success_probability, One)
              /\ rec.min_success_iteration = 1
              /\ rec.max_success_iteration = 1
              /\ RatEq(rec.average_success_iteration, One)
              /\ RatEq(rec.average_iterations, One)

C9_Witness ==
    /\ Listed /\ graph.edges = {} /\ n = 3 /\ kn = 2
    /\ num_repetitions = 2
    /\ check_points = <<1, 3>>
    /\ Len(history) = 2

\* C10 (as claimed): a call with num_repetitions < 1, num_attempts < 1 or an
\* empty checkpoint list ends in an error, performs no trial, returns no
\* record and adds nothing to the session's solutions.
C10_InvalidParametersRejected ==
    AtCheckpoints /\ pc = "done"
                  /\ (num_repetitions < 1 \/ num_attempts < 1 \/ check_points_arg = <<>>) =>
        /\ returned = "raise"
        /\ result = <<>>
        /\ history = <<>>
        /\ solutions = <<>>

Valid == num_repetitions >= 1 /\ num_attempts >= 1 /\ check_points_arg # <<>>

\* C11 (as claimed): a call of solve or of solve_at_checkpoints with valid
\* parameters on an input with kn = 0 or n = 0 raises nothing, returns a record
\* and has sampled nothing.
C11_DegenerateNeverRaises ==
    pc = "done" /\ Valid /\ (kn = 0 \/ n = 0) =>
        /\ returned # "raise"
        /\ result # <<>>
        /\ history = <<>>

\* C12 (as claimed): the records of two calls of solve_at_checkpoints with the
\* same arguments, each after random.seed(s) with the same s, are equal in
\* every field.
Compared == pc = "done" /\ seed_uses = 2

C12_SameSeedSameRecords ==
    Compared => result = previous

\* C12 (amended): they are equal in every field but the two measured times,
\* total_time and average_repetition_time.
TimeFields == {"total_time", "average_repetition_time"}
WithoutTimes(rec) == [f \in (DOMAIN rec) \ TimeFields |-> rec[f]]

C12_SameSeedSameRecordsButTimes ==
    Compared =>
        /\ Len(result) = Len(previous)
        /\ \A c \in DOMAIN result : WithoutTimes(result[c]) = WithoutTimes(previous[c])

C12_Witness ==
    /\ Compared
    /\ returned = "list"
    /\ tape # <<>>
    /\ pos = Len(tape)
    /\ \E c \in DOMAIN result :
          /\ result[c].success_count = 1
          /\ result[c].total_time # previous[c].total_time

\* C13 (as claimed): _adjust_k gives clamp(round(k * n), 0, n) for a float k
\* in [0, 1] and clamp(k, 0, n) for an int k.
Clamp(x, lo, hi) == Min({Max({lo, x}), hi})
\* Python round() of p/q >= 0: to the nearest integer, a half to the even one.
Round(p, q) ==
    LET fl == p \div q
        twice == 2 * (p - fl * q)
    IN  IF twice < q THEN fl
        ELSE IF twice > q THEN fl + 1
        ELSE IF fl % 2 = 0 THEN fl ELSE fl + 1

C13_SizeResolution ==
    probe.f = "_adjust_k" /\ probe.done =>
        probe.out = IF probe.k.is_float
                    THEN Clamp(Round(probe.k.num * probe.nodes, probe.k.den), 0, probe.nodes)
                    ELSE Clamp(probe.k.num, 0, probe.nodes)

\* C14 (as claimed): in the normalised list a checkpoint given as a fraction f
\* is floor(f * C(n, kn)) and one given as an int is itself, whatever the
\* other checkpoints of the list are.
Floor(p, q) == p \div q

C14_CheckpointNormalisation ==
    probe.f = "check_points" /\ probe.done =>
        /\ Len(probe.out) = Len(probe.list)
        /\ \A i \in DOMAIN probe.list :
              probe.out[i] = IF probe.list[i].is_float
                             THEN Floor(probe.list[i].num * probe.max_combinations,
                                        probe.list[i].den)
                             ELSE probe.list[i].num

\* C15 (as claimed): in every record returned by a call with valid parameters
\* 0 <= success_count <= repetitions and success_probability is
\* success_count / repetitions.
C15_ProbabilityIsCountOverRepetitions ==
    pc = "done" /\ Valid =>
        \A rec \in Range(result) :
            /\ 0 <= rec.success_count
            /\ rec.success_count <= rec.repetitions
            /\ RatEq(rec.success_probability, Rat(rec.success_count, rec.repetitions))

\* C16: the average_iterations of checkpoint c is the mean over all the
\* repetitions of: the iteration of the repetition's first independent trial
\* if that is <= c, else c; also for a repetition that the full ledger stopped.
Contribution(r, c) ==
    IF history[r].first # 0 /\ history[r].first <= check_points[c]
    THEN history[r].first
    ELSE check_points[c]

C16_AverageIterations ==
    Listed /\ num_repetitions >= 1 =>
        /\ Len(history) = num_repetitions
        /\ \A c \in DOMAIN check_points :
              RatEq(result[c].average_iterations,
                    Rat(Sum([r \in DOMAIN history |-> Contribution(r, c)]), num_repetitions))

C16_Witness ==
    /\ Listed
    /\ num_repetitions = 2
    /\ Len(check_points) = 2
    /\ history[1].end = "exhausted"
    /\ history[2].end = "exhausted"
    /\ RatEq(result[2].average_iterations, Rat(check_points[2], 1))

\* C17 (as claimed): the average_operations_count of a checkpoint is the sum
\* of the operation counts captured for it divided by num_repetitions.
C17_AverageOperationsOverRepetitions ==
    Listed /\ Valid =>
        \A c \in DOMAIN check_points :
            RatEq(result[c].average_operations_count,
                  Rat(Sum(operations_count_at_checkpoints[c]), num_repetitions))

\* C18 (as claimed): when the repetitions are over, every checkpoint (of a
\* budget >= 1) has num_repetitions captured operation counts and as many
\* captured times.
C18_OneSnapshotPerRepetition ==
    Listed /\ Valid /\ (\A c \in DOMAIN check_points : check_points[c] >= 1) =>
        \A c \in DOMAIN check_points :
            /\ Len(operations_count_at_checkpoints[c]) = num_repetitions
            /\ Len(repetition_times_at_checkpoints[c]) = num_repetitions

\* C19 (as claimed): the step that ends a repetition on a full ledger gives
\* every checkpoint without a snapshot in that repetition one, of the final
\* operation count.
ExhaustedStep ==
    /\ AtCheckpoints
    /\ pc = "iter"
    /\ pc' = "rep"
    /\ history'[Len(history')].end = "exhausted"

C19_ExhaustionSnapshots ==
    [][ExhaustedStep =>
          \A c \in DOMAIN check_points :
              c \notin history[Len(history)].snapshots =>
                  operations_count_at_checkpoints'[c] =
                      Append(operations_count_at_checkpoints[c], operations_count)]_vars

\* The step of an independent trial at 1-indexed iteration i = iteration + 1.
SuccessStep ==
    /\ AtCheckpoints
    /\ pc = "iter"
    /\ history'[Len(history')].end = "success"

\* That step records a success snapshot for exactly the checkpoints in `hit`.
SuccessSnapshotsAt(hit) ==
    \A c \in DOMAIN check_points :
        IF c \in hit
        THEN /\ success_count_at_checkpoints'[c] = success_count_at_checkpoints[c] + 1
             /\ iterations_checked_at_checkpoints'[c] =
                   Append(iterations_checked_at_checkpoints[c], iteration + 1)
             /\ operations_count_at_checkpoints'[c] =
                   Append(operations_count_at_checkpoints[c], operations_count')
             /\ repetition_times_at_checkpoints'[c] =
                   Append(repetition_times_at_checkpoints[c], clock - start_repetition)
             /\ ~example_solution_at_checkpoints'[c].none
        ELSE /\ success_count_at_checkpoints'[c] = success_count_at_checkpoints[c]
             /\ iterations_checked_at_checkpoints'[c] = iterations_checked_at_checkpoints[c]
             /\ operations_count_at_checkpoints'[c] = operations_count_at_checkpoints[c]
             /\ repetition_times_at_checkpoints'[c] = repetition_times_at_checkpoints[c]
             /\ example_solution_at_checkpoints'[c] = example_solution_at_checkpoints[c]

\* C20 (as claimed): an independent trial at 1-indexed iteration i records a
\* success snapshot for exactly the checkpoints of a budget > i.
C20_SuccessSnapshotsAboveIteration ==
    [][SuccessStep =>
          SuccessSnapshotsAt({c \in DOMAIN check_points : check_points[c] > iteration + 1})]_vars

\* C20 (amended): it records one for exactly the checkpoints of a budget >= i,
\* the checkpoint of budget i included.
C20_SuccessSnapshotsFromIteration ==
    [][SuccessStep =>
          SuccessSnapshotsAt({c \in DOMAIN check_points : check_points[c] >= iteration + 1})]_vars

C20_Witness ==
    /\ Listed
    /\ Len(check_points) = 2
    /\ \E r \in DOMAIN history :
          /\ history[r].first = check_points[1]
          /\ history[r].first >= 2
          /\ history[r].end = "success"
          /\ history[r].snapshots = {1, 2}
    /\ \E r \in DOMAIN history :
          /\ history[r].first > check_points[1]
          /\ history[r].counted = {2}

\* C21 (as claimed): an iteration makes at most num_attempts random.sample
\* calls, the first one included.
C21_AtMostNumAttemptsDraws ==
    num_attempts >= 1 => draws <= num_attempts

\* C22 (as claimed): at the start of every iteration the ledger is the set of
\* the subsets independence-checked in the earlier iterations of the repetition.
C22_LedgerIsTheCheckedSubsets ==
    pc = "iter" /\ num_attempts >= 1 => selected_vertices_set = tested

\* C23: the ledger never holds more than C(n, kn) subsets; from a full ledger
\* the only step is the end of the repetition, with no trial drawn or checked;
\* and when a repetition ends on the full ledger every kn-subset of the nodes
\* has been independence-checked in it and none is independent.
KSubsets == {S \in SUBSET (1..n) : Cardinality(S) = kn}

C23_EarlyTermination ==
    [][/\ Cardinality(selected_vertices_set') <= max_combinations'
       /\ pc = "iter" /\ Cardinality(selected_vertices_set) = max_combinations =>
             /\ pc' = "rep"
             /\ operations_count' = operations_count
             /\ history'[Len(history')].first = 0
             /\ at_checkpoints' = at_checkpoints
       /\ ExhaustedStep =>
             \A S \in KSubsets : S \in tested /\ ~IsIndependentSet(graph, S)]_vars

C23_Witness ==
    /\ AtCheckpoints /\ pc = "rep"
    /\ max_combinations = 3
    /\ iteration_limit = 4
    /\ history # <<>>
    /\ history[Len(history)].end = "exhausted"

\* C24 (as claimed): a trial that is not independent is charged, besides n
\* and 1, the position of its first adjacent pair among the pairs (i, j),
\* i < j, of the draw taken in order: no pair after that one is examined.
PairPosition(len, i, j) == (i - 1) * len - ((i - 1) * i) \div 2 + (j - i)
FirstAdjacentPair(g, sel) ==
    Min({PairPosition(Len(sel), i, j) : i, j \in DOMAIN sel} \cap
        {PairPosition(Len(sel), p[1], p[2]) :
            p \in {q \in (DOMAIN sel) \X (DOMAIN sel) :
                      q[1] < q[2] /\ has_edge(g, sel[q[1]], sel[q[2]])}})

FailedTrialStep == pc = "iter" /\ pc' = "iter" /\ iteration' = iteration + 1

C24_StopsAtFirstAdjacentPair ==
    [][FailedTrialStep /\ num_repetitions >= 1 /\ num_attempts >= 1 =>
          operations_count' - operations_count =
              n + FirstAdjacentPair(graph, selected_vertices') + 1]_vars

\* C27: every trial of solve_at_checkpoints raises the repetition's operation
\* count, 0 at its start, by n + the pairs examined in the subset kept + 1,
\* whatever the number of redraws; a failed trial at the iteration of a
\* checkpoint captures the count reached for that checkpoint.
\* The pairs (i, j) the pair loop examines: those with no edge from i to a
\* node before j.
ExaminedPairs(g, sel) ==
    {q \in (DOMAIN sel) \X (DOMAIN sel) :
        /\ q[1] < q[2]
        /\ \A m \in (q[1] + 1)..(q[2] - 1) : ~has_edge(g, sel[q[1]], sel[m])}

C27_OperationAccounting ==
    [][/\ AtCheckpoints /\ pc = "rep" /\ pc' = "iter" => operations_count' = 0
       /\ AtCheckpoints /\ FailedTrialStep =>
             /\ operations_count' = operations_count + n
                                      + Cardinality(ExaminedPairs(graph, selected_vertices')) + 1
             /\ operations_count' > operations_count
             /\ \A c \in DOMAIN check_points :
                   (check_points[c] = iteration' /\ \A b \in 1..(c - 1) : check_points[b] # iteration')
                       => operations_count_at_checkpoints'[c] =
                              Append(operations_count_at_checkpoints[c], operations_count')
       /\ SuccessStep =>
             /\ operations_count' = operations_count + n + comb(kn, 2) + 1
             /\ operations_count' > operations_count]_vars

C27_Witness ==
    /\ AtCheckpoints /\ pc = "iter"
    /\ draws = 2
    /\ n = 3 /\ kn = 2
    /\ iteration = 2
    /\ check_points[1] = 2
    /\ operations_count_at_checkpoints[1] = <<operations_count>>
    /\ operations_count = 10

\* C29: in a record of a sampled run with a success, 1 <= min <= mean <= max
\* <= budget for the successful iterations and average_iterations <= budget;
\* in every record the success flag, success_count >= 1 and the presence of a
\* witness go together.
C29_SuccessStatisticsOrdered ==
    Listed =>
        \A c \in DOMAIN result :
            LET rec == result[c]
            IN  /\ rec.success <=> rec.success_count >= 1
                /\ rec.success_count >= 1 <=> ~rec.vertices.none
                /\ rec.success_count >= 1 =>
                      /\ 1 <= rec.min_success_iteration
                      /\ RatLeq(Rat(rec.min_success_iteration, 1), rec.average_success_iteration)
                      /\ RatLeq(rec.average_success_iteration, Rat(rec.max_success_iteration, 1))
                      /\ rec.max_success_iteration <= check_points[c]
                      /\ RatLeq(rec.average_iterations, Rat(check_points[c], 1))

C29_Witness ==
    /\ Listed
    /\ \E c \in DOMAIN result :
          /\ result[c].success_count = 2
          /\ result[c].min_success_iteration = 1
          /\ result[c].max_success_iteration = 2
          /\ result[c].iterations = 3
          /\ iterations_checked_at_checkpoints[c] = <<1, 2>>

\* A call that has begun keeps executing: the interpreter runs the next
\* statement of the loops and random.sample returns, so each step of a call
\* in progress is taken once it stays enabled. Nothing obliges a caller to call.
Running == NextRepetition \/ Iteration \/ EndRepetition \/ Return

\* solve_at_checkpoints called as its interface asks, without a seed. Under
\* fairness every transition is matched against the loop step, which costs a
\* full evaluation of the draws: the fair runs take one repetition fewer and
\* budgets given as counts.
FairRepetitions == MaxRepetitions - 1
FairCheckPointLists == {cps \in CheckPointLists : cps # <<>> /\ ~any_float(cps)}

CallFair ==
    /\ pc = "idle"
    /\ \E g \in Graphs, kk \in KValues, cps \in FairCheckPointLists,
          reps \in 1..FairRepetitions, att \in 1..MaxAttempts :
          EnterCheckpoints(g, kk, cps, reps, att)
    /\ UNCHANGED generator

NextFair == CallFair \/ Running

SpecFair == Init /\ [][NextFair]_vars /\ WF_vars(Running)

\* C25: a call of solve_at_checkpoints on a non-empty checkpoint list
\* eventually returns its records; meanwhile a repetition never runs more
\* than max(check_points) trials, a trial never makes more than
\* num_attempts + 1 draws, and every repetition left behind ended by a
\* success, by the full ledger or by the end of the budget.
InCall == AtCheckpoints /\ pc \in {"rep", "iter"} /\ check_points # <<>>

C25_Termination ==
    /\ [](InCall =>
             /\ iteration <= Max(Range(check_points))
             /\ draws <= num_attempts + 1
             /\ \A r \in DOMAIN history :
                   (r < Len(history) \/ pc = "rep") =>
                       history[r].end \in {"success", "exhausted", "budget"})
    /\ InCall ~> (pc = "done" /\ returned = "list")

C25_Witness ==
    /\ Listed
    /\ num_attempts = 1
    /\ check_points = <<1, 3>>
    /\ Len(history) = 1
    /\ history[1].end = "budget" /\ history[1].repeated
    /\ Len(operations_count_at_checkpoints[2]) = 1

\* The repetitions of a finished call, executed in another order. A repetition
\* starts from an empty ledger and a zero count (lines 338-339), so what it
\* contributes to the accumulators of a checkpoint does not depend on its
\* place: its success iteration where it is counted, its captured operation
\* count and time where it left a snapshot, and its subset as the example.
Orders == Perms(Len(history))
AsExecuted == [r \in 1..Len(history) |-> r]
CountedIn(order, c) == SelectSeq(order, LAMBDA r : c \in history[r].counted)
SnapshotIn(order, c) == SelectSeq(order, LAMBDA r : c \in history[r].snapshots)
PositionIn(seq, x) == CHOOSE j \in DOMAIN seq : seq[j] = x
OperationsOf(r, c) ==
    operations_count_at_checkpoints[c][PositionIn(SnapshotIn(AsExecuted, c), r)]
TimeOf(r, c) ==
    repetition_times_at_checkpoints[c][PositionIn(SnapshotIn(AsExecuted, c), r)]
LastCounted(order, c) == CountedIn(order, c)[Len(CountedIn(order, c))]
\* The subset of a successful repetition is still on record where that
\* repetition was the last one counted at some checkpoint.
WitnessKnown(r) ==
    \E c \in DOMAIN check_points :
        CountedIn(AsExecuted, c) # <<>> /\ LastCounted(AsExecuted, c) = r
WitnessOf(r) ==
    example_solution_at_checkpoints[
        CHOOSE c \in DOMAIN check_points :
            CountedIn(AsExecuted, c) # <<>> /\ LastCounted(AsExecuted, c) = r]
WitnessesKnown(order) ==
    \A c \in DOMAIN check_points :
        CountedIn(order, c) # <<>> => WitnessKnown(LastCounted(order, c))

RecordsIn(order) ==
    records_of(
        [c \in DOMAIN check_points |-> Len(CountedIn(order, c))],
        [c \in DOMAIN check_points |->
            [j \in DOMAIN CountedIn(order, c) |-> history[CountedIn(order, c)[j]].first]],
        [c \in DOMAIN check_points |->
            IF CountedIn(order, c) # <<>> /\ WitnessKnown(LastCounted(order, c))
            THEN WitnessOf(LastCounted(order, c))
            ELSE None],
        [c \in DOMAIN check_points |->
            [j \in DOMAIN SnapshotIn(order, c) |-> OperationsOf(SnapshotIn(order, c)[j], c)]],
        [c \in DOMAIN check_points |->
            [j \in DOMAIN SnapshotIn(order, c) |-> TimeOf(SnapshotIn(order, c)[j], c)]])

\* C26 (as claimed): in whatever order the repetitions of a call are executed,
\* the records are those the call returned.
C26_AnyOrderSameRecords ==
    Listed /\ Valid =>
        \A order \in Orders : WitnessesKnown(order) => RecordsIn(order) = result

\* C26 (amended): the order as executed gives the records returned, and any
\* other order gives them in every field but the example subset and the
\* measured times.
Measured == TimeFields \cup {"vertices"}
Statistics(rec) == [f \in (DOMAIN rec) \ Measured |-> rec[f]]

C26_AnyOrderSameStatistics ==
    Listed =>
        /\ RecordsIn(AsExecuted) = result
        /\ \A order \in Orders :
              \A c \in DOMAIN result :
                  Statistics(RecordsIn(order)[c]) = Statistics(result[c])

C26_Witness ==
    /\ Listed /\ Valid
    /\ Len(history) = 2
    /\ check_points = <<1, 3>>
    /\ history[1].counted = {1, 2} /\ history[1].first = 1
    /\ history[2].counted = {2} /\ history[2].first = 2
    /\ example_solution_at_checkpoints[1] # example_solution_at_checkpoints[2]

\* ------------------------------------------------------------- one budget, both entry points
\* solve as its interface asks, after random.seed(s); then random.seed(s) once
\* more and solve_at_checkpoints with the same graph, k, repetitions and
\* attempts and the budget of solve as its only checkpoint.
CallSolveSeeded ==
    /\ pc = "idle"
    /\ \E g \in Graphs, kk \in KValues, ni \in Counts,
          reps \in 1..MaxRepetitions, att \in 1..MaxAttempts :
          EnterSolve(g, kk, ni, reps, att)
    /\ UNCHANGED generator

SeedAndCallAtCheckpoints ==
    /\ pc = "done"
    /\ fn = "solve"
    /\ returned = "Solution"
    /\ seed_uses = 1
    /\ seed_uses' = 2
    /\ pos' = 0
    /\ previous' = result
    /\ UNCHANGED tape
    /\ EnterCheckpoints(graph, k, check_points_arg, num_repetitions, num_attempts)

NextAgree ==
    \/ CallSolveSeeded
    \/ NextRepetition
    \/ Iteration
    \/ EndRepetition
    \/ Return
    \/ SeedAndCallAtCheckpoints

SpecAgree == InitSeeded /\ [][NextAgree]_vars

\* C28 (as claimed): solve with budget N and solve_at_checkpoints with the
\* single checkpoint N, fed the same draws, agree on the success count and
\* probability, on the minimum, maximum and mean success iteration, on
\* average_iterations, on average_operations_count and on the witness.
C28_SolveAgreesWithCheckpoints ==
    Compared /\ Listed =>
        /\ Len(previous) = 1 /\ Len(result) = 1
        /\ result[1].iterations = previous[1].iterations
        /\ result[1].success_count = previous[1].success_count
        /\ RatEq(result[1].success_probability, previous[1].success_probability)
        /\ result[1].min_success_iteration = previous[1].min_success_iteration
        /\ result[1].max_success_iteration = previous[1].max_success_iteration
        /\ RatEq(result[1].average_success_iteration, previous[1].average_success_iteration)
        /\ RatEq(result[1].average_iterations, previous[1].average_iterations)
        /\ RatEq(result[1].average_operations_count, previous[1].average_operations_count)
        /\ result[1].vertices = previous[1].vertices

\* ------------------------------------------------------------- sessions
\* One solver used for several calls, with flush between them. The calls are
\* on the graphs of one and two nodes: k = 0 is the degenerate size, and with
\* k = 1 the one trial there is to make succeeds or fails with the graph.
SessionGraphs == GraphsOn(1) \cup GraphsOn(2)
SessionK == {Rat(0, 1), Rat(1, 1)}
SessionCheckPointLists == {<<IntVal(1)>>, <<IntVal(1), IntVal(2)>>}

CallInSession ==
    /\ pc = "idle"
    /\ Len(solutions) < MaxSolutions
    /\ \E g \in SessionGraphs, kk \in SessionK :
          \/ \E cps \in SessionCheckPointLists : EnterCheckpoints(g, kk, cps, 1, 1)
          \/ EnterSolve(g, kk, IntVal(1), 1, 1)
    /\ UNCHANGED generator

\* The call has returned or raised; the caller goes on with the same solver.
Resume ==
    /\ pc = "done"
    /\ pc' = "idle"
    /\ UNCHANGED <<fn, solutions, inputs, normalised, at_checkpoints, solve_locals, loop,
                   outcome, clock, timing, generator, probe, observers>>

\* ISDPSolver.flush
flush ==
    /\ pc = "idle"
    /\ solutions' = <<>>
    /\ UNCHANGED <<pc, fn, inputs, normalised, at_checkpoints, solve_locals, loop,
                   outcome, clock, timing, generator, probe, observers>>

NextSession ==
    \/ CallInSession
    \/ NextRepetition
    \/ Iteration
    \/ EndRepetition
    \/ Return
    \/ Resume
    \/ flush

SpecSession == Init /\ [][NextSession]_vars

\* C30 (as claimed): every call that returns records appends all of them, in
\* order, to the session list, the degenerate kn = 0 return included; with
\* flush emptying the list, it holds the records returned since the last flush.
Returns == pc # "done" /\ pc' = "done" /\ returned' \in {"Solution", "list"}

C30_EveryReturnIsAppended ==
    [][/\ Returns => solutions' = solutions \o result'
       /\ (pc = "idle" /\ pc' = "idle" /\ solutions' # solutions) => solutions' = <<>>]_vars
====
